---- MODULE Spec2Model ----
(***************************************************************************)
(* The turtle command server of Assets/FlaskServer: per-label command      *)
(* queues, the status cache, the deduplicated block index with its         *)
(* blocks.json snapshot, and the socket.io notifications.                  *)
(*                                                                         *)
(* The model follows TurtleControllerWebSocket.py; TurtleController.py is  *)
(* the same REST handlers without the socketio.emit calls and without the  *)
(* socket.io event handlers.                                               *)
(*                                                                         *)
(* Two views of the handlers are given.  In Spec, SpecQueue, SpecBlocks,   *)
(* SpecPush (observers connected, writes of blocks.json may fail) and      *)
(* SpecRestart (the process stopped and started again) requests are served *)
(* one at a time and each handler is one action.                           *)
(* In SpecConc the handlers that read and then write shared state          *)
(* run on worker threads (flask / socketio async_mode='threading') and are *)
(* split at the points where CPython may switch threads: between           *)
(* bytecodes, never inside one call of a builtin (list.extend, list.pop,   *)
(* dict lookup and store, defaultdict.__missing__ run under the GIL).      *)
(***************************************************************************)
EXTENDS Integers, Sequences, FiniteSets, TLC

VARIABLES
    commands,       \* defaultdict(list): label -> queue, in insertion order
    turtle_status,  \* dict: label -> last status object
    known_blocks,   \* dict: "x,y,z" -> block, in insertion order
    disk,           \* blocks.json: missing, or its content as JSON tokens
    last,           \* the request served last (one at a time) and its response
    enqLog,         \* history: per label, the commands appended, in order
    delivered,      \* history: per label, the commands popped, in order
    upserts,        \* history: per label, the status object accepted last
    th,             \* per worker thread: the handler it runs and its locals
    started,        \* history: number of threaded requests started
    retBatches,     \* history: per label, the batches whose POST /commands returned 200, in order of return
    errs,           \* history: handlers that ended in an unhandled exception (HTTP 500)
    countSum,       \* history: sum of the new_blocks values POST /report responses carried
    loaded,         \* history: number of blocks load_blocks() put in the index at startup
    current_command,    \* the body of the last accepted POST /command, or None
    connected_clients   \* dict: socket.io session id -> what is known of the client

vars == <<commands, turtle_status, known_blocks, disk, last, enqLog, delivered,
          upserts, th, started, retBatches, errs, countSum, loaded,
          current_command, connected_clients>>

\* the state only POST /command and the socket.io connection handlers write
otherVars == <<current_command, connected_clients>>

threadVars == <<th, started, retBatches, errs, countSum>>

-----------------------------------------------------------------------------
(* Bounds and input domains *)

MaxBatch == 2       \* longest command batch of one POST /commands
MaxQueue == 3       \* most commands ever appended, over all labels
MaxScan == 2        \* longest block batch of one POST /report
MaxCalls == 3       \* most threaded requests started in one run

Labels == {"t1", "t2"}
Commands == {"forward", "dig"}
Threads == {"w1", "w2"}

Null == "<null>"                      \* Python None / JSON null
LabelInputs == Labels \cup {"", Null} \* a label as a request may carry it

RECURSIVE SeqsUpTo(_, _)
SeqsUpTo(S, n) ==
    IF n = 0 THEN {<<>>}
    ELSE LET shorter == SeqsUpTo(S, n - 1)
         IN  shorter \cup {Append(s, e) : s \in {q \in shorter : Len(q) = n - 1}, e \in S}

Batches == SeqsUpTo(Commands, MaxBatch)

\* Block records as POST /report carries them; NoZ lacks the z coordinate.
Stone1 == [x |-> 1, y |-> 11, z |-> -2, type |-> "stone"]
Dirt1 == [x |-> 1, y |-> 11, z |-> -2, type |-> "dirt"]
Stone2 == [x |-> 11, y |-> 1, z |-> -2, type |-> "stone"]
NoZ == [x |-> 1, y |-> 1, type |-> "stone"]
GoodBlocks == {Stone1, Dirt1, Stone2}
BlockInputs == GoodBlocks \cup {NoZ}

\* Request bodies as request.get_json() returns them.
JNull == [t |-> "null"]
JObj(o) == [t |-> "object", v |-> o]
JList(s) == [t |-> "array", v |-> s]

\* Status objects as POST /status and the turtle_status event carry them.
StatusOf(l) ==
    {[label |-> l, fuelLevel |-> 80],
     [label |-> l, fuelLevel |-> 20, isBusy |-> TRUE]}
NoLabelStatus == [fuelLevel |-> 80]
EmptyObject == [f \in {} |-> 0]

-----------------------------------------------------------------------------
(* Python values and builtins *)

\* bool(v) for the label and command values of the requests
Truthy(v) == v \notin {Null, ""}

\* dict, in insertion order: a sequence of [k, v] entries with distinct keys
Has(d, k) == \E i \in DOMAIN d : d[i].k = k
Get(d, k) == d[CHOOSE i \in DOMAIN d : d[i].k = k].v
Put(d, k, val) ==
    IF Has(d, k)
    THEN [i \in DOMAIN d |-> IF d[i].k = k THEN [k |-> k, v |-> val] ELSE d[i]]
    ELSE Append(d, [k |-> k, v |-> val])
Values(d) == [i \in DOMAIN d |-> d[i].v]
Keys(d) == {d[i].k : i \in DOMAIN d}

\* defaultdict(list).__getitem__: a missing key is inserted with list()
Missing(d, k) == IF Has(d, k) THEN d ELSE Append(d, [k |-> k, v |-> <<>>])

\* list.extend, list.append, list.pop(0)
ExtendReplaces(list, cmds) == cmds
Extend(list, cmds) == list \o cmds
PopLastValue(list) == list[Len(list)]
Pop0Value(list) == Head(list)
Pop0Rest(list) == Tail(list)

\* str(int) and the f-string f"{x},{y},{z}"
Digit(d) ==
    CASE d = 0 -> "0" [] d = 1 -> "1" [] d = 2 -> "2" [] d = 3 -> "3"
      [] d = 4 -> "4" [] d = 5 -> "5" [] d = 6 -> "6" [] d = 7 -> "7"
      [] d = 8 -> "8" [] OTHER -> "9"
RECURSIVE NatStr(_)
NatStr(n) == IF n < 10 THEN Digit(n) ELSE NatStr(n \div 10) \o Digit(n % 10)
Str(n) == IF n < 0 THEN "-" \o NatStr(-n) ELSE NatStr(n)

\* block['x'], block['y'], block['z'] raise KeyError on a record lacking one
HasCoords(block) == {"x", "y", "z"} \subseteq DOMAIN block
BlockKeyNoSeparator(block) == Str(block.x) \o Str(block.y) \o Str(block.z)
BlockKey(block) == Str(block.x) \o "," \o Str(block.y) \o "," \o Str(block.z)


-----------------------------------------------------------------------------
(* blocks.json *)

\* The file's content as JSON tokens: "[", one token per object, "]".
LB == [tok |-> "["]
RB == [tok |-> "]"]
Obj(b) == [tok |-> "object", v |-> b]
NoFile == [exists |-> FALSE, bytes |-> <<>>]
File(bytes) == [exists |-> TRUE, bytes |-> bytes]

\* json.dump(list, f) and json.load(f); JsonValid is "json.load does not raise"
JsonDump(list) == <<LB>> \o [i \in DOMAIN list |-> Obj(list[i])] \o <<RB>>
JsonValid(bytes) ==
    /\ Len(bytes) >= 2
    /\ bytes[1].tok = "["
    /\ bytes[Len(bytes)].tok = "]"
    /\ \A i \in 2..(Len(bytes) - 1) : bytes[i].tok = "object"
JsonLoadDropsLast(bytes) == [i \in 1..(Len(bytes) - 3) |-> bytes[i + 1].v]
JsonLoad(bytes) == [i \in 1..(Len(bytes) - 2) |-> bytes[i + 1].v]

\* the for loop of load_blocks; the except clause keeps what was loaded so far
RECURSIVE LoadLoop(_, _, _)
LoadLoop(kb, data, i) ==
    IF i > Len(data) THEN kb
    ELSE IF ~HasCoords(data[i]) THEN kb
    ELSE LoadLoop(Put(kb, BlockKey(data[i]), data[i]), data, i + 1)

load_blocks(file) ==
    IF ~file.exists THEN <<>>
    ELSE IF ~JsonValid(file.bytes) THEN <<>>
    ELSE LoadLoop(<<>>, JsonLoad(file.bytes), 1)

\* open(block_database_file, "w") and json.dump(list(known_blocks.values()), f)
save_blocks(kb) == File(JsonDump(Values(kb)))

\* blocks.json as an earlier run of the server can have left it
InitialDisks == {NoFile, save_blocks(<<[k |-> BlockKey(Stone2), v |-> Stone2]>>)}

\* blocks.json as anything may have left it: also cut short, empty, or with a
\* record that lacks a coordinate
StoreInputs ==
    InitialDisks \cup {File(<<>>), File(<<LB, Obj(Stone1)>>),
                       File(JsonDump(<<Stone1, NoZ>>)), File(JsonDump(<<NoZ, Stone1>>))}

\* the block records blocks.json holds
DiskBlocks(file) ==
    {file.bytes[i].v : i \in {j \in DOMAIN file.bytes : file.bytes[j].tok = "object"}}

-----------------------------------------------------------------------------
(* Responses and events *)

\* again: the request is a POST /report with the body of the POST /report
\* served just before it
Resp(op, arg, code, body, events) ==
    [op |-> op, arg |-> arg, code |-> code, body |-> body, events |-> events,
     again |-> /\ op = "receive_scan"
               /\ last.op = "receive_scan"
               /\ arg.t = "array"
               /\ last.arg.t = "array"
               /\ last.arg.v = arg.v]

\* socketio.emit(name, payload), with no room given: the event goes to every
\* client connected when emit is called
Event(name, payload) ==
    [name |-> name, payload |-> payload, to |-> Keys(connected_clients)]

IdleThread ==
    [pc |-> "idle", label |-> "", cmds |-> <<>>, data |-> <<>>, i |-> 0, n |-> 0,
     snap |-> <<>>, cmd |-> Null]

\* the process after "python TurtleControllerWebSocket.py", blocks.json being
\* one of disks: the module globals, then load_blocks()
Started(disks) ==
    /\ disk \in disks
    /\ known_blocks = load_blocks(disk)
    /\ loaded = Len(known_blocks)
    /\ commands = <<>>
    /\ turtle_status = <<>>
    /\ last = [op |-> "startup", arg |-> Null, code |-> 0, body |-> Null, events |-> <<>>,
               again |-> FALSE]
    /\ enqLog = [l \in Labels |-> <<>>]
    /\ delivered = [l \in Labels |-> <<>>]
    /\ upserts = [l \in {} |-> EmptyObject]
    /\ th = [t \in Threads |-> IdleThread]
    /\ started = 0
    /\ retBatches = [l \in Labels |-> <<>>]
    /\ errs = {}
    /\ countSum = 0
    /\ current_command = JNull
    /\ connected_clients = <<>>

Init == Started(InitialDisks)
InitStore == Started(StoreInputs)

\* the process is stopped and started again: memory is lost, blocks.json stays
restart ==
    /\ UNCHANGED disk
    /\ known_blocks' = load_blocks(disk)
    /\ loaded' = Len(load_blocks(disk))
    /\ commands' = <<>>
    /\ turtle_status' = <<>>
    /\ current_command' = JNull
    /\ connected_clients' = <<>>
    /\ last' = [op |-> "startup", arg |-> Null, code |-> 0, body |-> Null, events |-> <<>>,
                again |-> FALSE]
    /\ enqLog' = [l \in Labels |-> <<>>]
    /\ delivered' = [l \in Labels |-> <<>>]
    /\ upserts' = [l \in {} |-> EmptyObject]
    /\ UNCHANGED <<th, started, retBatches, errs, countSum>>

-----------------------------------------------------------------------------
(* Command queues, one request at a time *)

RECURSIVE SumLen(_, _)
SumLen(f, S) ==
    IF S = {} THEN 0
    ELSE LET l == CHOOSE e \in S : TRUE IN Len(f[l]) + SumLen(f, S \ {l})

\* commands appended so far, over all labels
Logged == SumLen(enqLog, Labels)

\* what POST /commands does to the queues q: whether the request is accepted,
\* the queues after it, and the events it emits
QueueCommands(q, label, cmds) ==
    IF Truthy(label)
    THEN [accepted |-> TRUE,
          commands |-> Put(Missing(q, label), label,
                           Extend(Get(Missing(q, label), label), cmds)),
          events |-> <<Event("commands_" \o label, [commands |-> cmds])>>]
    ELSE [accepted |-> FALSE, commands |-> q, events |-> <<>>]

\* POST /commands {label, commands}
queue_commands(label, cmds) ==
    /\ Truthy(label) => Logged + Len(cmds) <= MaxQueue
    /\ commands' = QueueCommands(commands, label, cmds).commands
    /\ IF QueueCommands(commands, label, cmds).accepted
       THEN /\ enqLog' = [enqLog EXCEPT ![label] = @ \o cmds]
            /\ last' = Resp("queue_commands", [label |-> label, commands |-> cmds], 200,
                            [status |-> "ok"],
                            QueueCommands(commands, label, cmds).events)
       ELSE /\ UNCHANGED enqLog
            /\ last' = Resp("queue_commands", [label |-> label, commands |-> cmds], 400,
                            [status |-> "error"],
                            QueueCommands(commands, label, cmds).events)
    /\ UNCHANGED <<turtle_status, known_blocks, disk, delivered, upserts, loaded>>
    /\ UNCHANGED threadVars
    /\ UNCHANGED otherVars

\* what the socket.io event 'command' does to the queues q
HandleCommandLabelOnly(q, label, command) ==
    IF Truthy(label)
    THEN [accepted |-> TRUE,
          commands |-> Put(Missing(q, label), label,
                           Append(Get(Missing(q, label), label), command)),
          events |-> <<Event("command_" \o label, [command |-> command])>>]
    ELSE [accepted |-> FALSE, commands |-> q, events |-> <<>>]
HandleCommand(q, label, command) ==
    IF Truthy(label) /\ Truthy(command)
    THEN [accepted |-> TRUE,
          commands |-> Put(Missing(q, label), label,
                           Append(Get(Missing(q, label), label), command)),
          events |-> <<Event("command_" \o label, [command |-> command])>>]
    ELSE [accepted |-> FALSE, commands |-> q, events |-> <<>>]

\* socket.io event 'command' {label, command}
handle_command(label, command) ==
    /\ HandleCommand(commands, label, command).accepted => Logged + 1 <= MaxQueue
    /\ commands' = HandleCommand(commands, label, command).commands
    /\ IF HandleCommand(commands, label, command).accepted
       THEN /\ enqLog' = [enqLog EXCEPT ![label] = Append(@, command)]
            /\ last' = Resp("handle_command", [label |-> label, command |-> command], 0,
                            [status |-> "ok"],
                            HandleCommand(commands, label, command).events)
       ELSE /\ UNCHANGED enqLog
            /\ last' = Resp("handle_command", [label |-> label, command |-> command], 0,
                            [status |-> "error"],
                            HandleCommand(commands, label, command).events)
    /\ UNCHANGED <<turtle_status, known_blocks, disk, delivered, upserts, loaded>>
    /\ UNCHANGED threadVars
    /\ UNCHANGED otherVars

\* GET /commands?label=
get_all_commands(label) ==
    /\ last' = Resp("get_all_commands", [label |-> label], 200,
                    [commands |-> IF Truthy(label) /\ Has(commands, label)
                                  THEN Get(commands, label) ELSE <<>>],
                    <<>>)
    /\ UNCHANGED <<commands, enqLog, turtle_status, known_blocks, disk, delivered, upserts, loaded>>
    /\ UNCHANGED threadVars
    /\ UNCHANGED otherVars

\* "label and label in commands and commands[label]": its value, and the dict
\* after it was evaluated (the subscript runs only for a key that is present)
HasPending(cmds, label) == Truthy(label) /\ Has(cmds, label) /\ Get(cmds, label) # <<>>
AfterLookupUnguarded(cmds, label) == IF Truthy(label) THEN Missing(cmds, label) ELSE cmds
AfterLookup(cmds, label) == cmds

\* GET /command?label=
get_next_command(label) ==
    /\ IF HasPending(commands, label)
       THEN /\ commands' = Put(AfterLookup(commands, label), label,
                               Pop0Rest(Get(commands, label)))
            /\ delivered' = [delivered EXCEPT ![label] = Append(@, Pop0Value(Get(commands, label)))]
            /\ last' = Resp("get_next_command", [label |-> label], 200,
                            [command |-> Pop0Value(Get(commands, label))], <<>>)
       ELSE /\ commands' = AfterLookup(commands, label)
            /\ UNCHANGED delivered
            /\ last' = Resp("get_next_command", [label |-> label], 200,
                            [command |-> Null], <<>>)
    /\ UNCHANGED <<enqLog, turtle_status, known_blocks, disk, upserts, loaded>>
    /\ UNCHANGED threadVars
    /\ UNCHANGED otherVars

-----------------------------------------------------------------------------
(* The ad-hoc command slot *)

\* "not data" for a request body: None, {} and [] are falsy
Falsy(data) ==
    \/ data.t = "null"
    \/ data.t = "object" /\ DOMAIN data.v = {}
    \/ data.t = "array" /\ data.v = <<>>

\* "current_command = data"
StoreCommandKeepsOld(cur, data) == cur
StoreCommand(cur, data) == data

\* POST /command
set_command(data) ==
    /\ IF Falsy(data)
       THEN /\ UNCHANGED current_command
            /\ last' = Resp("set_command", data, 400, [status |-> "error"], <<>>)
       ELSE /\ current_command' = StoreCommand(current_command, data)
            /\ last' = Resp("set_command", data, 200, [status |-> "ok"], <<>>)
    /\ UNCHANGED <<commands, enqLog, delivered, turtle_status, known_blocks, disk, upserts,
                   loaded, connected_clients>>
    /\ UNCHANGED threadVars

-----------------------------------------------------------------------------
(* Status cache, one request at a time *)

\* "not data or 'label' not in data"
StatusRejected(data) ==
    \/ data.t = "null"
    \/ DOMAIN data.v = {}
    \/ "label" \notin DOMAIN data.v

\* turtle_status[label] = data
StoreStatusMerged(status, data) ==
    IF Has(status, data.label)
    THEN Put(status, data.label,
             [f \in DOMAIN Get(status, data.label) \cup DOMAIN data |->
                 IF f \in DOMAIN data THEN data[f] ELSE Get(status, data.label)[f]])
    ELSE Put(status, data.label, data)
StoreStatusAppends(status, data) == Append(status, [k |-> data.label, v |-> data])
StoreStatus(status, data) == Put(status, data.label, data)

\* history: data is the status object accepted last for its label
Upserted(data) ==
    [l \in DOMAIN upserts \cup {data.label} |-> IF l = data.label THEN data ELSE upserts[l]]

\* what POST /status does to the status cache
ReceiveStatus(status, data) ==
    IF StatusRejected(data)
    THEN [accepted |-> FALSE, turtle_status |-> status, events |-> <<>>]
    ELSE [accepted |-> TRUE, turtle_status |-> StoreStatus(status, data.v),
          events |-> <<Event("status_update", data.v)>>]

\* what the socket.io event 'turtle_status' does to the status cache
HandleTurtleStatus(status, data) ==
    IF StatusRejected(data)
    THEN [accepted |-> FALSE, turtle_status |-> status, events |-> <<>>]
    ELSE [accepted |-> TRUE, turtle_status |-> StoreStatus(status, data.v),
          events |-> <<Event("status_update", data.v)>>]

\* POST /status
receive_status(data) ==
    /\ turtle_status' = ReceiveStatus(turtle_status, data).turtle_status
    /\ IF ReceiveStatus(turtle_status, data).accepted
       THEN /\ upserts' = Upserted(data.v)
            /\ last' = Resp("receive_status", data, 200, [status |-> "ok"],
                            ReceiveStatus(turtle_status, data).events)
       ELSE /\ UNCHANGED upserts
            /\ last' = Resp("receive_status", data, 400, [status |-> "error"],
                            ReceiveStatus(turtle_status, data).events)
    /\ UNCHANGED <<commands, enqLog, delivered, known_blocks, disk, loaded>>
    /\ UNCHANGED threadVars
    /\ UNCHANGED otherVars

\* socket.io event 'turtle_status'
handle_turtle_status(data) ==
    /\ turtle_status' = HandleTurtleStatus(turtle_status, data).turtle_status
    /\ IF HandleTurtleStatus(turtle_status, data).accepted
       THEN upserts' = Upserted(data.v)
       ELSE UNCHANGED upserts
    /\ last' = Resp("handle_turtle_status", data, 0, Null,
                    HandleTurtleStatus(turtle_status, data).events)
    /\ UNCHANGED <<commands, enqLog, delivered, known_blocks, disk, loaded>>
    /\ UNCHANGED threadVars
    /\ UNCHANGED otherVars

\* GET /status/<label>
get_status(label) ==
    /\ IF Has(turtle_status, label)
       THEN last' = Resp("get_status", [label |-> label], 200, Get(turtle_status, label), <<>>)
       ELSE last' = Resp("get_status", [label |-> label], 404, [status |-> "error"], <<>>)
    /\ UNCHANGED <<commands, enqLog, delivered, turtle_status, known_blocks, disk, upserts, loaded>>
    /\ UNCHANGED threadVars
    /\ UNCHANGED otherVars

\* GET /status/all
get_all_status ==
    /\ last' = Resp("get_all_status", Null, 200, Values(turtle_status), <<>>)
    /\ UNCHANGED <<commands, enqLog, delivered, turtle_status, known_blocks, disk, upserts, loaded>>
    /\ UNCHANGED threadVars
    /\ UNCHANGED otherVars

-----------------------------------------------------------------------------
(* Block index, one request at a time *)

\* "if key not in known_blocks: known_blocks[key] = block"
InsertIfAbsent(kb, block) ==
    IF Has(kb, BlockKey(block)) THEN kb ELSE Put(kb, BlockKey(block), block)

\* "new_blocks += 1", inside the same if
CountedAlways(kb, block, n) == n + 1
Counted(kb, block, n) == IF Has(kb, BlockKey(block)) THEN n ELSE n + 1

\* the for loop of receive_scan from element i on, with n insertions counted so
\* far; raised: block['x'] (or 'y', 'z') raised KeyError and the loop was left
RECURSIVE ScanLoop(_, _, _, _)
ScanLoop(kb, data, i, n) ==
    IF i > Len(data) THEN [kb |-> kb, new_blocks |-> n, raised |-> FALSE]
    ELSE IF ~HasCoords(data[i]) THEN [kb |-> kb, new_blocks |-> n, raised |-> TRUE]
    ELSE ScanLoop(InsertIfAbsent(kb, data[i]), data, i + 1, Counted(kb, data[i], n))

\* "if new_blocks > 0: save_blocks()"
SaveIfNew(file, kb, n) == IF n > 0 THEN save_blocks(kb) ELSE file

\* What the file system does to one save_blocks() call: the write succeeds;
\* open() raises OSError and the file stays as it was; or open() has truncated
\* the file and the write raises OSError after any part of the text.
IoOutcomes == {"ok", "open_fails", "write_fails"}
Prefixes(bytes) == {SubSeq(bytes, 1, k) : k \in 0..(Len(bytes) - 1)}

\* "if new_blocks > 0: save_blocks()" under io: the files it can leave, and
\* whether save_blocks raised
SaveOutcomesSwallowed(file, kb, n, io) ==
    IF n = 0 \/ io = "ok" THEN {[disk |-> SaveIfNew(file, kb, n), raised |-> FALSE]}
    ELSE IF io = "open_fails" THEN {[disk |-> file, raised |-> FALSE]}
    ELSE {[disk |-> File(b), raised |-> FALSE] : b \in Prefixes(JsonDump(Values(kb)))}
SaveOutcomes(file, kb, n, io) ==
    IF n = 0 \/ io = "ok" THEN {[disk |-> SaveIfNew(file, kb, n), raised |-> FALSE]}
    ELSE IF io = "open_fails" THEN {[disk |-> file, raised |-> TRUE]}
    ELSE {[disk |-> File(b), raised |-> TRUE] : b \in Prefixes(JsonDump(Values(kb)))}

\* the request body, with what the file system did during the request
WithIo(data, io) == [io |-> io] @@ data

\* POST /report, with the file system behaving as io during the request
receive_scan(data, io) ==
    /\ IF data.t # "array"
       THEN /\ UNCHANGED <<known_blocks, disk>>
            /\ last' = Resp("receive_scan", WithIo(data, io), 400, [status |-> "error"], <<>>)
       ELSE LET r == ScanLoop(known_blocks, data.v, 1, 0)
            IN  /\ known_blocks' = r.kb
                /\ IF r.raised
                   THEN /\ UNCHANGED disk
                        /\ last' = Resp("receive_scan", WithIo(data, io), 500, Null, <<>>)
                   ELSE \E out \in SaveOutcomes(disk, r.kb, r.new_blocks, io) :
                        /\ disk' = out.disk
                        /\ IF out.raised
                           THEN last' = Resp("receive_scan", WithIo(data, io), 500, Null, <<>>)
                           ELSE last' = Resp("receive_scan", WithIo(data, io), 200,
                                             [status |-> "ok", new_blocks |-> r.new_blocks],
                                             IF r.new_blocks > 0
                                             THEN <<Event("blocks_update",
                                                          [new_blocks |-> r.new_blocks,
                                                           total |-> Len(r.kb)])>>
                                             ELSE <<>>)
    /\ UNCHANGED <<commands, enqLog, delivered, turtle_status, upserts, loaded>>
    /\ UNCHANGED threadVars
    /\ UNCHANGED otherVars

\* GET /report
get_scan ==
    /\ last' = Resp("get_scan", Null, 200, Values(known_blocks), <<>>)
    /\ UNCHANGED <<commands, enqLog, delivered, turtle_status, known_blocks, disk, upserts, loaded>>
    /\ UNCHANGED threadVars
    /\ UNCHANGED otherVars

-----------------------------------------------------------------------------
(* socket.io connections *)

Sids == {"s1", "s2"}
RegisterBodies == {[type |-> "unity"]}

\* "del d[k]"
Del(d, k) == SelectSeq(d, LAMBDA e : e.k # k)

\* data.get(key, 'unknown')
GetOr(data, key, default) == IF key \in DOMAIN data THEN data[key] ELSE default

\* the frame of the connection handlers
storeVars ==
    <<commands, enqLog, delivered, turtle_status, known_blocks, disk, upserts, loaded,
      current_command>>

\* event 'connect' of a new session (connected_at, a timestamp, is left out)
handle_connect(sid) ==
    /\ ~Has(connected_clients, sid)
    /\ connected_clients' = Put(connected_clients, sid, [type |-> "unknown"])
    /\ last' = Resp("handle_connect", [sid |-> sid], 0, Null, <<>>)
    /\ UNCHANGED storeVars
    /\ UNCHANGED threadVars

\* event 'disconnect' of a connected session
handle_disconnect(sid) ==
    /\ Has(connected_clients, sid)
    /\ connected_clients' = Del(connected_clients, sid)
    /\ last' = Resp("handle_disconnect", [sid |-> sid], 0, Null, <<>>)
    /\ UNCHANGED storeVars
    /\ UNCHANGED threadVars

\* event 'register' of a connected session; emit() inside a handler answers
\* the sender only
handle_register(sid, data) ==
    /\ Has(connected_clients, sid)
    /\ connected_clients' = Put(connected_clients, sid,
                                [type |-> GetOr(data, "type", "unknown"),
                                 id |-> GetOr(data, "id", "unknown")])
    /\ last' = Resp("handle_register", [sid |-> sid, data |-> data], 0, Null,
                    <<[name |-> "registered", payload |-> [status |-> "ok", sid |-> sid],
                       to |-> {sid}]>>)
    /\ UNCHANGED storeVars
    /\ UNCHANGED threadVars

-----------------------------------------------------------------------------
(* The server with requests served one at a time *)

StatusBodies ==
    {JObj(s) : s \in UNION {StatusOf(l) : l \in Labels}}
        \cup {JObj(NoLabelStatus), JObj(EmptyObject), JNull}
ScanBodies ==
    {JList(s) : s \in SeqsUpTo(BlockInputs, MaxScan)} \cup {JObj(EmptyObject)}
StatusQueries == Labels \cup {"unknown"}

\* one representative request per operation
FewLabels == {"t1"}
FewBatches == {<<"forward">>}
FewStatusBodies == {JObj([label |-> "t1", fuelLevel |-> 80])}
FewScanBodies == {JList(<<Stone1>>)}

\* bodies of POST /command
CommandBodies ==
    {JObj([label |-> "t1", command |-> "forward"]), JObj(EmptyObject), JNull}
\* requests the handlers reject, next to one they accept
SomeLabels == FewLabels \cup {Null, ""}
SomeCommands == {"forward", Null}
SomeScanBodies == FewScanBodies \cup {JObj(EmptyObject), JNull}

QueueRequests(labels, batches, cmds) ==
    \/ \E label \in labels, b \in batches : queue_commands(label, b)
    \/ \E label \in labels, c \in cmds : handle_command(label, c)
    \/ \E label \in labels : get_all_commands(label)
    \/ \E label \in labels : get_next_command(label)

StatusRequests(bodies, queries) ==
    \/ \E data \in bodies : receive_status(data)
    \/ \E data \in bodies : handle_turtle_status(data)
    \/ \E label \in queries : get_status(label)
    \/ get_all_status

BlockRequests(bodies) ==
    \/ \E data \in bodies : receive_scan(data, "ok")
    \/ get_scan

\* the command queues under every request the queue handlers accept or reject
NextQueue == QueueRequests(LabelInputs, Batches, Commands \cup {Null})

\* the whole server: every status request, and the other stores kept small
Next ==
    \/ StatusRequests(StatusBodies, StatusQueries)
    \/ \E label \in SomeLabels, b \in FewBatches : queue_commands(label, b)
    \/ \E label \in SomeLabels, c \in SomeCommands : handle_command(label, c)
    \/ \E label \in FewLabels : get_all_commands(label)
    \/ \E label \in LabelInputs : get_next_command(label)
    \/ \E data \in CommandBodies : set_command(data)
    \/ \E data \in SomeScanBodies : receive_scan(data, "ok")

\* the block index under every report, next to one status report
NextBlocks ==
    \/ BlockRequests(ScanBodies)
    \/ \E data \in FewStatusBodies : receive_status(data)

\* the push-enabled server: observers connect and disconnect while the
\* stores are written, and the file system may fail a write
PushScanBodies == {JList(<<Stone1>>), JList(<<Stone2, NoZ>>)}
NextPush ==
    \/ \E sid \in Sids : handle_connect(sid)
    \/ \E sid \in Sids : handle_disconnect(sid)
    \/ \E sid \in Sids, data \in RegisterBodies : handle_register(sid, data)
    \/ \E data \in FewStatusBodies \cup {JNull} : receive_status(data)
    \/ \E data \in FewStatusBodies \cup {JNull} : handle_turtle_status(data)
    \/ \E label \in FewLabels, b \in FewBatches : queue_commands(label, b)
    \/ \E label \in FewLabels, c \in SomeCommands : handle_command(label, c)
    \/ \E data \in PushScanBodies, io \in IoOutcomes : receive_scan(data, io)
    \/ get_scan

\* the server stopped and started again between requests, over any blocks.json
NextRestart ==
    \/ restart
    \/ \E data \in PushScanBodies, io \in IoOutcomes : receive_scan(data, io)
    \/ get_scan
    \/ \E data \in FewStatusBodies : receive_status(data)
    \/ get_all_status
    \/ \E label \in FewLabels, b \in FewBatches : queue_commands(label, b)
    \/ \E label \in FewLabels : get_all_commands(label)
    \/ \E data \in CommandBodies : set_command(data)

SpecQueue == Init /\ [][NextQueue]_vars
SpecRestart == InitStore /\ [][NextRestart]_vars
SpecPush == Init /\ [][NextPush]_vars
Spec == Init /\ [][Next]_vars
SpecBlocks == Init /\ [][NextBlocks]_vars

-----------------------------------------------------------------------------
(* The handlers on worker threads *)

ConcLabels == Labels \cup {Null}
ConcBatches == {<<"forward", "dig">>, <<"dig">>}
ConcScanBodies == {JList(<<Stone1>>), JList(<<Dirt1, Stone2>>), JObj(EmptyObject)}

Running(t, pc) == th[t].pc = pc
Goto(t, pc) == [th EXCEPT ![t].pc = pc]
Quiescent == \A t \in Threads : th[t].pc = "idle"

seqVars == <<last, upserts, loaded, turtle_status>>

\* POST /commands: request.json, data.get, "if label:"
queue_commands_begin(t, label, cmds) ==
    /\ Running(t, "idle")
    /\ started < MaxCalls
    /\ started' = started + 1
    /\ IF Truthy(label)
       THEN th' = [th EXCEPT ![t] = [IdleThread EXCEPT !.pc = "q_subscr",
                                                       !.label = label, !.cmds = cmds]]
       ELSE UNCHANGED th
    /\ UNCHANGED <<commands, known_blocks, disk, enqLog, delivered, retBatches, errs, countSum>>
    /\ UNCHANGED seqVars
    /\ UNCHANGED otherVars

\* commands[label]
queue_commands_subscr(t) ==
    /\ Running(t, "q_subscr")
    /\ commands' = Missing(commands, th[t].label)
    /\ th' = Goto(t, "q_extend")
    /\ UNCHANGED <<known_blocks, disk, enqLog, delivered, started, retBatches, errs, countSum>>
    /\ UNCHANGED seqVars
    /\ UNCHANGED otherVars

\* .extend(cmds), on the list the subscript returned
queue_commands_extend(t) ==
    /\ Running(t, "q_extend")
    /\ commands' = Put(commands, th[t].label, Extend(Get(commands, th[t].label), th[t].cmds))
    /\ enqLog' = [enqLog EXCEPT ![th[t].label] = @ \o th[t].cmds]
    /\ th' = Goto(t, "q_return")
    /\ UNCHANGED <<known_blocks, disk, delivered, started, retBatches, errs, countSum>>
    /\ UNCHANGED seqVars
    /\ UNCHANGED otherVars

\* socketio.emit, print, return 200
queue_commands_return(t) ==
    /\ Running(t, "q_return")
    /\ retBatches' = [retBatches EXCEPT ![th[t].label] = Append(@, th[t].cmds)]
    /\ th' = [th EXCEPT ![t] = IdleThread]
    /\ UNCHANGED <<commands, known_blocks, disk, enqLog, delivered, started, errs, countSum>>
    /\ UNCHANGED seqVars
    /\ UNCHANGED otherVars

\* GET /command: "if label and label in commands and commands[label]:"
get_next_command_test(t, label) ==
    /\ Running(t, "idle")
    /\ started < MaxCalls
    /\ started' = started + 1
    /\ commands' = AfterLookup(commands, label)
    /\ IF HasPending(commands, label)
       THEN th' = [th EXCEPT ![t] = [IdleThread EXCEPT !.pc = "g_pop", !.label = label]]
       ELSE UNCHANGED th
    /\ UNCHANGED <<known_blocks, disk, enqLog, delivered, retBatches, errs, countSum>>
    /\ UNCHANGED seqVars
    /\ UNCHANGED otherVars

\* commands[label].pop(0), IndexError on an empty list; return
get_next_command_pop(t) ==
    /\ Running(t, "g_pop")
    /\ IF Get(commands, th[t].label) = <<>>
       THEN /\ errs' = errs \cup {"get_next_command"}
            /\ UNCHANGED <<commands, delivered>>
       ELSE /\ commands' = Put(commands, th[t].label, Pop0Rest(Get(commands, th[t].label)))
            /\ delivered' = [delivered EXCEPT
                                ![th[t].label] = Append(@, Pop0Value(Get(commands, th[t].label)))]
            /\ UNCHANGED errs
    /\ th' = [th EXCEPT ![t] = IdleThread]
    /\ UNCHANGED <<known_blocks, disk, enqLog, started, retBatches, countSum>>
    /\ UNCHANGED seqVars
    /\ UNCHANGED otherVars

\* POST /report: request.get_json, isinstance(data, list), new_blocks = 0
receive_scan_begin(t, data) ==
    /\ Running(t, "idle")
    /\ started < MaxCalls
    /\ started' = started + 1
    /\ IF data.t = "array"
       THEN th' = [th EXCEPT ![t] = [IdleThread EXCEPT !.pc = "s_test", !.data = data.v,
                                                       !.i = 1, !.n = 0]]
       ELSE UNCHANGED th
    /\ UNCHANGED <<commands, known_blocks, disk, enqLog, delivered, retBatches, errs, countSum>>
    /\ UNCHANGED seqVars
    /\ UNCHANGED otherVars

\* "for block in data", the key, "if key not in known_blocks"; after the loop,
\* "if new_blocks > 0" and, with nothing new, the return
receive_scan_test(t) ==
    /\ Running(t, "s_test")
    /\ IF th[t].i > Len(th[t].data)
       THEN IF th[t].n > 0
            THEN /\ th' = Goto(t, "s_open")
                 /\ UNCHANGED <<errs, countSum>>
            ELSE /\ th' = [th EXCEPT ![t] = IdleThread]
                 /\ UNCHANGED <<errs, countSum>>
       ELSE IF ~HasCoords(th[t].data[th[t].i])
            THEN /\ th' = [th EXCEPT ![t] = IdleThread]
                 /\ errs' = errs \cup {"receive_scan"}
                 /\ UNCHANGED countSum
            ELSE /\ IF Has(known_blocks, BlockKey(th[t].data[th[t].i]))
                    THEN th' = [th EXCEPT ![t].i = @ + 1]
                    ELSE th' = Goto(t, "s_store")
                 /\ UNCHANGED <<errs, countSum>>
    /\ UNCHANGED <<commands, known_blocks, disk, enqLog, delivered, started, retBatches>>
    /\ UNCHANGED seqVars
    /\ UNCHANGED otherVars

\* "known_blocks[key] = block", "new_blocks += 1"
receive_scan_store(t) ==
    /\ Running(t, "s_store")
    /\ known_blocks' = Put(known_blocks, BlockKey(th[t].data[th[t].i]), th[t].data[th[t].i])
    /\ th' = [th EXCEPT ![t].pc = "s_test", ![t].i = @ + 1, ![t].n = @ + 1]
    /\ UNCHANGED <<commands, disk, enqLog, delivered, started, retBatches, errs, countSum>>
    /\ UNCHANGED seqVars
    /\ UNCHANGED otherVars

\* file.write at offset 0 of a file opened with "w"
WriteAt0(file, bytes) ==
    File(bytes \o SubSeq(file.bytes, Len(bytes) + 1, Len(file.bytes)))

\* save_blocks: open(block_database_file, "w") creates or truncates the file
save_blocks_open(t) ==
    /\ Running(t, "s_open")
    /\ disk' = File(<<>>)
    /\ th' = Goto(t, "s_dump")
    /\ UNCHANGED <<commands, known_blocks, enqLog, delivered, started, retBatches, errs, countSum>>
    /\ UNCHANGED seqVars
    /\ UNCHANGED otherVars

\* save_blocks: list(known_blocks.values()), serialised into the file object's buffer
save_blocks_dump(t) ==
    /\ Running(t, "s_dump")
    /\ th' = [th EXCEPT ![t].pc = "s_close", ![t].snap = Values(known_blocks)]
    /\ UNCHANGED <<commands, known_blocks, disk, enqLog, delivered, started, retBatches,
                   errs, countSum>>
    /\ UNCHANGED seqVars
    /\ UNCHANGED otherVars

\* save_blocks: leaving the with block flushes the buffer; then emit and return
save_blocks_close(t) ==
    /\ Running(t, "s_close")
    /\ disk' = WriteAt0(disk, JsonDump(th[t].snap))
    /\ countSum' = countSum + th[t].n
    /\ th' = [th EXCEPT ![t] = IdleThread]
    /\ UNCHANGED <<commands, known_blocks, enqLog, delivered, started, retBatches, errs>>
    /\ UNCHANGED seqVars
    /\ UNCHANGED otherVars

NextConc ==
    \E t \in Threads :
        \/ \E label \in ConcLabels, cmds \in ConcBatches : queue_commands_begin(t, label, cmds)
        \/ queue_commands_subscr(t)
        \/ queue_commands_extend(t)
        \/ queue_commands_return(t)
        \/ \E label \in ConcLabels : get_next_command_test(t, label)
        \/ get_next_command_pop(t)
        \/ \E data \in ConcScanBodies : receive_scan_begin(t, data)
        \/ receive_scan_test(t)
        \/ receive_scan_store(t)
        \/ save_blocks_open(t)
        \/ save_blocks_dump(t)
        \/ save_blocks_close(t)

SpecConc == Init /\ [][NextConc]_vars

-----------------------------------------------------------------------------
(* Properties *)

IsPrefix(p, q) == Len(p) <= Len(q) /\ SubSeq(q, 1, Len(p)) = p
QueueOf(l) == IF Has(commands, l) THEN Get(commands, l) ELSE <<>>
Coord(block) == <<block.x, block.y, block.z>>
StoredBlocks == {known_blocks[i].v : i \in DOMAIN known_blocks}

RECURSIVE Flat(_)
Flat(seqs) == IF seqs = <<>> THEN <<>> ELSE Head(seqs) \o Flat(Tail(seqs))
Orders(n) == {p \in [1..n -> 1..n] : \A i, j \in 1..n : p[i] = p[j] => i = j}

\* C1: with requests served one at a time, the commands GET /command has
\* returned for a label are, in order, a prefix of the commands appended for
\* that label (by POST /commands batches and socket.io command events, in
\* request order); nothing appended for another label is ever returned.
C1_PerAgentFifo == \A l \in Labels : IsPrefix(delivered[l], enqLog[l])

C1_Witness ==
    /\ last.op = "get_next_command"
    /\ delivered["t1"] = <<"forward", "dig">>
    /\ enqLog["t2"] # <<>>

\* C2: a GET /command for a label whose queue is empty or that has no queue
\* answers 200 with command null and changes no queue, status, block or
\* blocks.json; in particular it adds no queue for the label.
C2_EmptyDequeueIsNoop ==
    [][(/\ last'.op = "get_next_command"
        /\ QueueOf(last'.arg.label) = <<>>)
       => /\ last'.code = 200
          /\ last'.body.command = Null
          /\ UNCHANGED <<commands, turtle_status, known_blocks, disk>>]_vars

C2_Witness ==
    /\ last.op = "get_next_command"
    /\ last.arg.label = "t2"
    /\ last.body.command = Null
    /\ ~Has(commands, "t2")
    /\ Has(commands, "t1")
    /\ turtle_status # <<>>
    /\ known_blocks # <<>>

C4_NewBlocksCount ==
    [][(last'.op = "receive_scan" /\ last'.code = 200)
       => LET batch == last'.arg.v
              fresh == {Coord(batch[i]) : i \in DOMAIN batch}
                           \ {Coord(b) : b \in StoredBlocks}
          IN  /\ last'.body.new_blocks = Cardinality(fresh)
              /\ Len(known_blocks') = Len(known_blocks) + last'.body.new_blocks]_vars

C4_Witness ==
    /\ last.op = "receive_scan"
    /\ last.code = 200
    /\ Len(last.arg.v) = 2
    /\ last.body.new_blocks = 2

\* C5: a POST /report with the body of the POST /report served just before it
\* leaves the index and blocks.json as the first left them; when it answers
\* with new_blocks that number is 0 and the index holds exactly one block for
\* each coordinate of the batch.
C5_ReportIdempotent ==
    [][(/\ last.op = "receive_scan"
        /\ last'.op = "receive_scan"
        /\ last.arg.t = "array"
        /\ last'.arg.t = "array"
        /\ last'.arg.v = last.arg.v)
       => /\ UNCHANGED <<known_blocks, disk>>
          /\ last'.code = 200
                => /\ last'.body.new_blocks = 0
                   /\ \A i \in DOMAIN last'.arg.v :
                        Cardinality({j \in DOMAIN known_blocks' :
                            Coord(known_blocks'[j].v) = Coord(last'.arg.v[i])}) = 1]_vars

C5_Witness ==
    /\ last.op = "receive_scan"
    /\ last.again
    /\ last.code = 200
    /\ last.body.new_blocks = 0
    /\ Len(last.arg.v) = 2
    /\ Coord(last.arg.v[1]) # Coord(last.arg.v[2])

\* C6: the status cache holds, for exactly the labels of the accepted status
\* reports (POST /status and turtle_status events), the object of the last one
\* accepted and nothing of earlier ones; GET /status/<label> returns that
\* object, or 404 for a label with no accepted report.
C6_StatusLastWriteWins ==
    /\ Keys(turtle_status) = DOMAIN upserts
    /\ \A l \in DOMAIN upserts : Get(turtle_status, l) = upserts[l]
    /\ last.op = "get_status"
          => IF last.arg.label \in DOMAIN upserts
             THEN last.code = 200 /\ last.body = upserts[last.arg.label]
             ELSE last.code = 404

C6_Witness ==
    /\ last.op = "get_status"
    /\ last.code = 200
    /\ last.arg.label = "t1"
    /\ last.body = [label |-> "t1", fuelLevel |-> 80]
    /\ DOMAIN upserts = Labels

\* C7: when no POST /commands or GET /command is in progress, the queue of a
\* label holds as many commands as the batches of the answered POST /commands
\* requests minus the commands popped, and popped commands followed by the
\* queue are those batches, each whole and in its own order, one after another.
C7_NoLostAppends ==
    Quiescent =>
        \A l \in Labels :
            /\ Len(QueueOf(l)) = Len(Flat(retBatches[l])) - Len(delivered[l])
            /\ \E p \in Orders(Len(retBatches[l])) :
                   Flat([i \in 1..Len(retBatches[l]) |-> retBatches[l][p[i]]])
                       = delivered[l] \o QueueOf(l)

C7_Witness ==
    /\ Quiescent
    /\ retBatches["t1"] = <<<<"dig">>, <<"forward", "dig">>>>
    /\ QueueOf("t1") = <<"forward", "dig", "dig">>

\* C8: when no POST /report is in progress, the new_blocks values the answered
\* requests returned add up to the number of blocks the index gained.
C8_ConcurrentDedup == Quiescent => countSum = Len(known_blocks) - loaded

\* C9: popped commands followed by the queue are the commands appended, so
\* every command goes to at most one GET /command and none is lost; and no
\* GET /command ends in an exception.
C9_AtMostOnceHandoff ==
    /\ \A l \in Labels : delivered[l] \o QueueOf(l) = enqLog[l]
    /\ "get_next_command" \notin errs

\* C10: with requests served one at a time, blocks.json holds exactly the
\* blocks of the index, after startup and after every POST /report.
C10_DiskMatchesMemory == DiskBlocks(disk) = StoredBlocks

\* C11: concurrent POST /report requests write blocks.json one after another,
\* each writing the index as it is when it writes: whenever no request is in
\* progress, blocks.json is a well-formed JSON array (no write landed inside
\* another) holding exactly the blocks of the index (no older snapshot
\* replaced a newer one).
C11_SerializedPersist ==
    Quiescent =>
        /\ disk.exists => JsonValid(disk.bytes)
        /\ DiskBlocks(disk) = StoredBlocks

\* C12: a POST /report whose batch holds a record lacking x, y or z, at any
\* position, is answered with the validation error (400) and changes neither
\* the index nor blocks.json, whatever well-formed records precede it.
C12_MalformedBatchNoMutation ==
    [][(/\ last'.op = "receive_scan"
        /\ last'.arg.t = "array"
        /\ \E i \in DOMAIN last'.arg.v : ~HasCoords(last'.arg.v[i]))
       => /\ last'.code = 400
          /\ UNCHANGED <<known_blocks, disk>>]_vars

\* C13: a status report without a label (POST /status or turtle_status
\* event), a POST /commands without a label, a command event without label or
\* without command, and a POST /report whose body is not an array are
\* rejected (400, or status "error" for the command event; the turtle_status
\* handler just returns), change no queue, status, block or blocks.json, and
\* emit no event.
C13_RejectedCallsMutateNothing ==
    [][LET op == last'.op
           arg == last'.arg
           noLabel == arg.t = "null" \/ "label" \notin DOMAIN arg.v
       IN  /\ (op = "receive_status" /\ noLabel) => last'.code = 400
           /\ (op = "queue_commands" /\ arg.label \in {Null, ""}) => last'.code = 400
           /\ (op = "handle_command" /\ (arg.label \in {Null, ""} \/ arg.command \in {Null, ""}))
                 => last'.body.status = "error"
           /\ (op = "receive_scan" /\ arg.t # "array") => last'.code = 400
           /\ (\/ op \in {"receive_status", "handle_turtle_status"} /\ noLabel
               \/ op = "queue_commands" /\ arg.label \in {Null, ""}
               \/ op = "handle_command" /\ (arg.label \in {Null, ""} \/ arg.command \in {Null, ""})
               \/ op = "receive_scan" /\ arg.t # "array")
                 => /\ UNCHANGED <<commands, turtle_status, known_blocks, disk>>
                    /\ last'.events = <<>>]_vars

C13_Witness ==
    /\ last.op = "handle_command"
    /\ last.arg.label = "t1"
    /\ last.arg.command = Null
    /\ last.body.status = "error"
    /\ Has(commands, "t1")
    /\ turtle_status # <<>>
    /\ known_blocks # <<>>

\* C14: when the write of blocks.json fails (open or write raises) in a POST
\* /report that inserted blocks, the request is answered 500, never 200, and
\* the blocks of its batch are in the index; the server goes on serving from
\* memory: no block leaves the index, and GET /report returns the whole
\* index, the blocks of the failed request included.
C14_WriteFailureSurfaced ==
    [][/\ (/\ last'.op = "receive_scan"
           /\ last'.arg.t = "array"
           /\ last'.arg.io # "ok"
           /\ \A i \in DOMAIN last'.arg.v : HasCoords(last'.arg.v[i])
           /\ Len(known_blocks') > Len(known_blocks))
          => /\ last'.code = 500
             /\ \A i \in DOMAIN last'.arg.v :
                    \E j \in DOMAIN known_blocks' :
                        Coord(known_blocks'[j].v) = Coord(last'.arg.v[i])
       /\ last'.op = "get_scan"
          => /\ last'.code = 200
             /\ last'.body = Values(known_blocks)
       /\ \A i \in DOMAIN known_blocks :
            /\ Has(known_blocks', known_blocks[i].k)
            /\ Get(known_blocks', known_blocks[i].k) = known_blocks[i].v]_vars

C14_Witness ==
    /\ last.op = "get_scan"
    /\ \E i \in DOMAIN last.body : last.body[i] = Stone1
    /\ disk.exists
    /\ ~JsonValid(disk.bytes)
    /\ Stone1 \notin DiskBlocks(disk)

\* json.load raises on the file, or a record of it lacks a coordinate
Corrupt(file) ==
    \/ ~JsonValid(file.bytes)
    \/ \E i \in DOMAIN file.bytes : file.bytes[i].tok = "object" /\ ~HasCoords(file.bytes[i].v)

\* C15: when the server has started on a blocks.json that is missing or
\* corrupt (not parseable, or parseable with a record lacking a coordinate at
\* any position), the index is empty.
C15_BadStoreLoadsEmpty ==
    (last.op = "startup" /\ (~disk.exists \/ Corrupt(disk))) => known_blocks = <<>>

\* C19: a restart on a blocks.json that is missing or intact leaves the index
\* holding exactly the blocks of blocks.json, one entry per coordinate, and
\* leaves every command queue, the status cache and the ad-hoc slot empty.
C19_RestartKeepsBlocks ==
    [][(last'.op = "startup" /\ (~disk.exists \/ ~Corrupt(disk)))
       => /\ {known_blocks'[i].v : i \in DOMAIN known_blocks'} = DiskBlocks(disk)
          /\ \A i, j \in DOMAIN known_blocks' :
                Coord(known_blocks'[i].v) = Coord(known_blocks'[j].v) => i = j
          /\ \A i \in DOMAIN known_blocks' :
                known_blocks'[i].k = BlockKey(known_blocks'[i].v)
          /\ disk' = disk
          /\ commands' = <<>>
          /\ turtle_status' = <<>>]_vars

C19_Witness ==
    /\ last.op = "startup"
    /\ Len(known_blocks) = 2
    /\ StoredBlocks = DiskBlocks(disk)
    /\ commands = <<>>
    /\ turtle_status = <<>>

\* C16: every accepted status report emits one status_update carrying the
\* object now stored, every accepted enqueue emits one event named after the
\* label it addressed, every POST /report that made the index grow emits one
\* blocks_update with the growth and the new total, and a POST /report that
\* inserted nothing emits nothing; each event goes to exactly the clients
\* connected at the time.
C16_NotifyOnMutation ==
    [][LET op == last'.op
           arg == last'.arg
           ev == last'.events
           now == Keys(connected_clients)
       IN  /\ (/\ op \in {"receive_status", "handle_turtle_status"}
               /\ arg.t = "object"
               /\ "label" \in DOMAIN arg.v)
              => ev = <<[name |-> "status_update",
                         payload |-> Get(turtle_status', arg.v.label), to |-> now]>>
           /\ (op = "queue_commands" /\ last'.code = 200)
              => ev = <<[name |-> "commands_" \o arg.label,
                         payload |-> [commands |-> arg.commands], to |-> now]>>
           /\ (op = "handle_command" /\ last'.body.status = "ok")
              => ev = <<[name |-> "command_" \o arg.label,
                         payload |-> [command |-> arg.command], to |-> now]>>
           /\ (op = "receive_scan" /\ Len(known_blocks') > Len(known_blocks))
              => ev = <<[name |-> "blocks_update",
                         payload |-> [new_blocks |-> Len(known_blocks') - Len(known_blocks),
                                      total |-> Len(known_blocks')],
                         to |-> now]>>
           /\ (op = "receive_scan" /\ Len(known_blocks') = Len(known_blocks))
              => ev = <<>>]_vars

\* C17: the status cache holds one object per label that had an accepted
\* status report, whatever rejected reports and GET /status/<label> queries
\* came in between, and GET /status/all returns exactly these objects, one
\* per such label.
C17_OneSnapshotPerLabel ==
    /\ Len(turtle_status) = Cardinality(DOMAIN upserts)
    /\ last.op = "get_all_status"
          => /\ last.code = 200
             /\ Len(last.body) = Cardinality(DOMAIN upserts)
             /\ {last.body[i].label : i \in DOMAIN last.body} = DOMAIN upserts

C17_Witness ==
    /\ last.op = "get_all_status"
    /\ Len(last.body) = 2
    /\ last.body[1].label = "t2"
    /\ last.body[1].fuelLevel = 20

\* C18: in every state, for every label and command, the command event is
\* accepted exactly when a POST /commands with that label and the one-command
\* batch is, both leave the same queues and both emit an event of the same
\* name to the same clients; and for every body the turtle_status event is
\* accepted exactly when POST /status is, both leave the same status cache
\* and both emit the same status_update.
C18_TransportsAgree ==
    /\ \A label \in LabelInputs, c \in Commands \cup {Null, ""} :
          LET push == HandleCommand(commands, label, c)
              pull == QueueCommands(commands, label, <<c>>)
          IN  /\ push.accepted <=> pull.accepted
              /\ push.commands = pull.commands
              /\ Len(push.events) = Len(pull.events)
              /\ \A i \in DOMAIN push.events :
                    /\ push.events[i].name = pull.events[i].name
                    /\ push.events[i].to = pull.events[i].to
    /\ \A data \in StatusBodies :
          LET push == HandleTurtleStatus(turtle_status, data)
              pull == ReceiveStatus(turtle_status, data)
          IN  /\ push.accepted <=> pull.accepted
              /\ push.turtle_status = pull.turtle_status
              /\ push.events = pull.events

\* C20: POST /command writes nothing but the ad-hoc slot (the body, when it is
\* accepted); the queue handlers never write the slot, and what GET /command
\* and GET /commands return is taken from the queue of the label asked for.
C20_AdHocSlotIsolated ==
    [][LET op == last'.op
           arg == last'.arg
       IN  /\ op = "set_command"
              => /\ UNCHANGED <<commands, turtle_status, known_blocks, disk>>
                 /\ current_command' = IF last'.code = 200 THEN arg ELSE current_command
           /\ op \in {"queue_commands", "handle_command", "get_next_command", "get_all_commands"}
              => UNCHANGED current_command
           /\ op = "get_next_command"
              => last'.body.command =
                    IF QueueOf(arg.label) = <<>> THEN Null ELSE Head(QueueOf(arg.label))
           /\ op = "get_all_commands"
              => last'.body.commands = QueueOf(arg.label)]_vars

C20_Witness ==
    /\ last.op = "get_all_commands"
    /\ last.body.commands = <<"forward">>
    /\ current_command = JObj([label |-> "t1", command |-> "forward"])
    /\ delivered["t1"] = <<"forward">>

=============================================================================
